---------------------------- MODULE Spec2Model ----------------------------
(***************************************************************************)
(* Model of auth.go: the Authenticator of the spotify package.             *)
(*                                                                         *)
(* An Authenticator is a struct value holding a pointer to an              *)
(* oauth2.Config.  The model keeps the allocated Config objects in `heap`  *)
(* (an address is an index into it) and the Authenticator values the       *)
(* program holds in `auths`.  The calls into golang.org/x/oauth2           *)
(* (Config.AuthCodeURL, Config.Exchange, Config.Client) are modelled by    *)
(* what they do with the Config they are handed: AuthCodeURL formats the   *)
(* query of the authorization URL, Exchange sends one request to the token *)
(* endpoint and returns the reply it gets, Client binds a token.  The      *)
(* reply of the token endpoint is an input of the call.                    *)
(***************************************************************************)
EXTENDS Naturals, Sequences, FiniteSets, TLC

VARIABLES
    env,        \* the process environment: SPOTIFY_ID, SPOTIFY_SECRET
    heap,       \* the oauth2.Config objects allocated so far, by address
    auths,      \* the Authenticator values held by the program
    origin,     \* history: for each value, the NewAuthenticator call it descends from
    ctor,       \* history: the arguments of each NewAuthenticator call
    lastSet,    \* history: per NewAuthenticator call, the latest SetAuthInfo made
                \* through any value descending from it
    last,       \* the most recent call: its arguments, the requests it sent to
                \* the token endpoint, the reply it got and what it returned
    setter,     \* a SetAuthInfo in progress (interleaved executions only)
    reader      \* an Exchange or Token in progress (interleaved executions only)

vars == <<env, heap, auths, origin, ctor, lastSet, last, setter, reader>>

-----------------------------------------------------------------------------
(* Bounds of the model *)

MaxVals == 1        \* values per key in a callback's query string
MaxConfigs == 2     \* NewAuthenticator calls in one behaviour
MaxAuths == 3       \* Authenticator values held at once

-----------------------------------------------------------------------------
(* Constants of auth.go *)

AuthURL == "https://accounts.spotify.com/authorize"
TokenURL == "https://accounts.spotify.com/api/token"
ScopeUserLibraryRead == "user-library-read"
ScopeUserFollowRead == "user-follow-read"

\* Go's nil (no token, no error, no value)
Nil == "<nil>"

\* the errors Token makes itself
ErrAuthFailed(e) == "spotify: auth failed - " \o e
ErrNoCode == "spotify: didn't get access code"
ErrStateMismatch == "spotify: redirect state parameter doesn't match"

-----------------------------------------------------------------------------
(* Inputs *)

\* the environment either sets neither variable or both
Environments ==
    { [SPOTIFY_ID |-> "", SPOTIFY_SECRET |-> ""],
      [SPOTIFY_ID |-> "envid", SPOTIFY_SECRET |-> "envkey"] }

RedirectURLs == {"https://app.example/cb", "https://other.example/cb"}
ScopeLists == { <<>>, <<ScopeUserLibraryRead, ScopeUserFollowRead>> }

\* the pairs SetAuthInfo is called with
AuthInfos == { <<"id1", "key1">>, <<"id2", "key2">> }

ExpectedStates == {"", "xyz"}
ErrorStrs == {"", "access_denied"}
CodeStrs == {"", "ABC"}
StateStrs == {"xyz", "bad"}
Codes == {"ABC", "DEF"}
Tokens == {"T1", "T2"}
ExchangeErrs == {"oauth2: cannot fetch token"}

\* what the token endpoint can answer: a token, or a failure
Replies ==
    { [token |-> t, err |-> Nil] : t \in Tokens } \cup
    { [token |-> Nil, err |-> e] : e \in ExchangeErrs }

SeqsUpTo(S, n) == UNION { [1..k -> S] : k \in 0..n }

\* url.Values of a callback: each key maps to the list of its values, the
\* empty list when the key is absent from the query string
Requests ==
    { [error |-> e, code |-> c, state |-> s] :
        e \in SeqsUpTo(ErrorStrs, MaxVals),
        c \in SeqsUpTo(CodeStrs, MaxVals),
        s \in SeqsUpTo(StateStrs, MaxVals) }

\* one callback of each kind: denied, without a code, with a foreign state,
\* and the one the provider sends after consent
Callbacks ==
    { [error |-> <<"access_denied">>, code |-> <<>>, state |-> <<"xyz">>],
      [error |-> <<>>, code |-> <<>>, state |-> <<"xyz">>],
      [error |-> <<>>, code |-> <<"ABC">>, state |-> <<"bad">>],
      [error |-> <<>>, code |-> <<"ABC">>, state |-> <<"xyz">>] }

-----------------------------------------------------------------------------
(* Library operations used by auth.go *)

\* url.Values.Get: the first value of the key, "" if there is none
Get(values, key) == IF Len(values[key]) = 0 THEN "" ELSE values[key][1]

\* strings.Join(list, " ")
RECURSIVE Join(_)
Join(list) ==
    IF Len(list) = 0 THEN ""
    ELSE IF Len(list) = 1 THEN list[1]
    ELSE list[1] \o " " \o Join(Tail(list))

\* a query value that is left out when empty
CondVal(v) == IF v = "" THEN <<>> ELSE <<v>>

\* oauth2.Config.AuthCodeURL: the authorization endpoint with its query
AuthCodeURL(c, state) ==
    [ base |-> c.Endpoint.AuthURL,
      query |-> [ response_type |-> <<"code">>,
                  client_id |-> <<c.ClientID>>,
                  redirect_uri |-> CondVal(c.RedirectURL),
                  scope |-> CondVal(Join(c.Scopes)),
                  state |-> CondVal(state) ] ]

\* the request oauth2.Config.Exchange sends, given the credentials it read
ExchangeRequest(c, id, secret, code) ==
    [ url |-> c.Endpoint.TokenURL,
      grant_type |-> "authorization_code",
      client_id |-> id,
      client_secret |-> secret,
      code |-> code,
      redirect_uri |-> c.RedirectURL ]

\* oauth2.Config.Exchange: one request, and the reply as it came
ConfigExchange(c, code, reply) ==
    [ token |-> reply.token,
      err |-> reply.err,
      sent |-> << ExchangeRequest(c, c.ClientID, c.ClientSecret, code) >> ]

-----------------------------------------------------------------------------
(* The bodies of the methods, as functions of the Config they reach *)

\* NewAuthenticator's Config literal
NewConfig(redirectURL, scopes) ==
    [ ClientID |-> env.SPOTIFY_ID,
      ClientSecret |-> env.SPOTIFY_SECRET,
      RedirectURL |-> redirectURL,
      Scopes |-> scopes,
      Endpoint |-> [AuthURL |-> AuthURL, TokenURL |-> TokenURL] ]

\* a.config.ClientID = clientID
WriteClientID(c, clientID) == [c EXCEPT !.ClientID = clientID]

\* variant: the second assignment is lost
WriteClientSecretDropped(c, secretKey) == c

\* a.config.ClientSecret = secretKey
WriteClientSecret(c, secretKey) == [c EXCEPT !.ClientSecret = secretKey]

\* variant: the arguments land in each other's field
SetAuthInfoSwapped(c, clientID, secretKey) ==
    [c EXCEPT !.ClientID = secretKey, !.ClientSecret = clientID]

\* variant: the Config is replaced by a fresh literal holding only the credentials
SetAuthInfoFresh(c, clientID, secretKey) ==
    [ ClientID |-> clientID,
      ClientSecret |-> secretKey,
      RedirectURL |-> "",
      Scopes |-> <<>>,
      Endpoint |-> c.Endpoint ]

\* SetAuthInfo: the two assignments in program order
SetAuthInfoBody(c, clientID, secretKey) ==
    WriteClientSecret(WriteClientID(c, clientID), secretKey)

\* variant: the state is not checked
TokenChecksNoState(state, r) ==
    IF Get(r, "error") # "" THEN ErrAuthFailed(Get(r, "error"))
    ELSE IF Get(r, "code") = "" THEN ErrNoCode
    ELSE Nil

\* variant: the error parameter is not checked
TokenChecksNoError(state, r) ==
    IF Get(r, "code") = "" THEN ErrNoCode
    ELSE IF Get(r, "state") # state THEN ErrStateMismatch
    ELSE Nil

\* variant: the code is not checked
TokenChecksNoCode(state, r) ==
    IF Get(r, "error") # "" THEN ErrAuthFailed(Get(r, "error"))
    ELSE IF Get(r, "state") # state THEN ErrStateMismatch
    ELSE Nil

\* variant: a callback without a state parameter is let through
TokenChecksAbsentStateOk(state, r) ==
    IF Get(r, "error") # "" THEN ErrAuthFailed(Get(r, "error"))
    ELSE IF Get(r, "code") = "" THEN ErrNoCode
    ELSE IF Len(r["state"]) > 0 /\ Get(r, "state") # state THEN ErrStateMismatch
    ELSE Nil

\* variant: the code is checked before the error parameter
TokenChecksCodeFirst(state, r) ==
    IF Get(r, "code") = "" THEN ErrNoCode
    ELSE IF Get(r, "error") # "" THEN ErrAuthFailed(Get(r, "error"))
    ELSE IF Get(r, "state") # state THEN ErrStateMismatch
    ELSE Nil

\* the three checks of Token, in program order: the error it returns, or Nil
TokenChecks(state, r) ==
    IF Get(r, "error") # "" THEN ErrAuthFailed(Get(r, "error"))
    ELSE IF Get(r, "code") = "" THEN ErrNoCode
    ELSE IF Get(r, "state") # state THEN ErrStateMismatch
    ELSE Nil

\* variant: a failed exchange is tried a second time
TokenBodyRetry(c, state, r, reply) ==
    IF TokenChecks(state, r) # Nil
    THEN [token |-> Nil, err |-> TokenChecks(state, r), sent |-> <<>>]
    ELSE LET res == ConfigExchange(c, Get(r, "code"), reply) IN
         IF res.err # Nil THEN [res EXCEPT !.sent = res.sent \o res.sent] ELSE res

\* Token: the checks, then the exchange of the code
TokenBody(c, state, r, reply) ==
    IF TokenChecks(state, r) # Nil
    THEN [token |-> Nil, err |-> TokenChecks(state, r), sent |-> <<>>]
    ELSE ConfigExchange(c, Get(r, "code"), reply)

\* Exchange: the exchange of the given code
ExchangeBody(c, code, reply) == ConfigExchange(c, code, reply)

\* NewClient: a Client whose transport carries the token
NewClientBody(c, token) == [http |-> [source |-> token]]

-----------------------------------------------------------------------------
(* State *)

NoCall == <<>>
NoRequest == [error |-> <<>>, code |-> <<>>, state |-> <<>>]
Idle == [pc |-> "idle"]

\* a record of a call; the fields a call does not have stay Nil
Call(op, a) ==
    [ op |-> op, a |-> a, state |-> Nil, r |-> NoRequest, code |-> Nil,
      clientID |-> Nil, secretKey |-> Nil, tok |-> Nil,
      token |-> Nil, err |-> Nil, url |-> Nil, client |-> Nil,
      sent |-> <<>>, reply |-> Nil, raced |-> FALSE ]

\* the Config an Authenticator value points to
ConfigOf(a) == heap[auths[a].config]

\* the reply a call got: none if it asked nothing
Got(res, reply) == IF res.sent = <<>> THEN Nil ELSE reply

Init ==
    /\ env \in Environments
    /\ \E redirectURL \in RedirectURLs, scopes \in ScopeLists :
         /\ heap = << NewConfig(redirectURL, scopes) >>
         /\ ctor = << [redirectURL |-> redirectURL, scopes |-> scopes] >>
    /\ auths = << [config |-> 1] >>
    /\ origin = << 1 >>
    /\ lastSet = << NoCall >>
    /\ last = Call("NewAuthenticator", 1)
    /\ setter = Idle
    /\ reader = Idle

-----------------------------------------------------------------------------
(* Calls that run to completion *)

\* b := NewAuthenticator(redirectURL, scopes...)
NewAuthenticator(redirectURL, scopes) ==
    /\ Len(heap) < MaxConfigs
    /\ Len(auths) < MaxAuths
    /\ heap' = Append(heap, NewConfig(redirectURL, scopes))
    /\ auths' = Append(auths, [config |-> Len(heap) + 1])
    /\ origin' = Append(origin, Len(ctor) + 1)
    /\ ctor' = Append(ctor, [redirectURL |-> redirectURL, scopes |-> scopes])
    /\ lastSet' = Append(lastSet, NoCall)
    /\ last' = Call("NewAuthenticator", Len(auths) + 1)
    /\ UNCHANGED <<env, setter, reader>>

\* variant: the assignment clones the Config instead of sharing it
CopyDeep(a) ==
    /\ Len(auths) < MaxAuths
    /\ heap' = Append(heap, ConfigOf(a))
    /\ auths' = Append(auths, [config |-> Len(heap) + 1])
    /\ origin' = Append(origin, origin[a])
    /\ last' = Call("Copy", a)
    /\ UNCHANGED <<env, ctor, lastSet, setter, reader>>

\* b := a, an assignment of the struct value
Copy(a) ==
    /\ Len(auths) < MaxAuths
    /\ auths' = Append(auths, auths[a])
    /\ origin' = Append(origin, origin[a])
    /\ last' = Call("Copy", a)
    /\ UNCHANGED <<env, heap, ctor, lastSet, setter, reader>>

\* a.SetAuthInfo(clientID, secretKey)
SetAuthInfo(a, clientID, secretKey) ==
    /\ heap' = [heap EXCEPT ![auths[a].config] =
                    SetAuthInfoBody(ConfigOf(a), clientID, secretKey)]
    /\ lastSet' = [lastSet EXCEPT ![origin[a]] =
                    [clientID |-> clientID, secretKey |-> secretKey, via |-> a]]
    /\ last' = [Call("SetAuthInfo", a) EXCEPT
                    !.clientID = clientID, !.secretKey = secretKey]
    /\ UNCHANGED <<env, auths, origin, ctor, setter, reader>>

\* a.AuthURL(state)
Authenticator_AuthURL(a, state) ==
    /\ last' = [Call("AuthURL", a) EXCEPT
                    !.state = state, !.url = AuthCodeURL(ConfigOf(a), state)]
    /\ UNCHANGED <<env, heap, auths, origin, ctor, lastSet, setter, reader>>

\* a.Token(state, r), the token endpoint answering reply if it is asked
Token(a, state, r, reply) ==
    LET res == TokenBody(ConfigOf(a), state, r, reply) IN
    /\ last' = [Call("Token", a) EXCEPT
                    !.state = state, !.r = r,
                    !.token = res.token, !.err = res.err, !.sent = res.sent,
                    !.reply = Got(res, reply)]
    /\ UNCHANGED <<env, heap, auths, origin, ctor, lastSet, setter, reader>>

\* a.Exchange(code), the token endpoint answering reply
Exchange(a, code, reply) ==
    LET res == ExchangeBody(ConfigOf(a), code, reply) IN
    /\ last' = [Call("Exchange", a) EXCEPT
                    !.code = code,
                    !.token = res.token, !.err = res.err, !.sent = res.sent,
                    !.reply = Got(res, reply)]
    /\ UNCHANGED <<env, heap, auths, origin, ctor, lastSet, setter, reader>>

\* a.NewClient(token)
NewClient(a, token) ==
    /\ last' = [Call("NewClient", a) EXCEPT
                    !.tok = token, !.client = NewClientBody(ConfigOf(a), token)]
    /\ UNCHANGED <<env, heap, auths, origin, ctor, lastSet, setter, reader>>

Values == 1..Len(auths)

-----------------------------------------------------------------------------
(* Spec: one Authenticator, every method, a callback of each kind *)

Next ==
    \/ \E a \in Values, info \in AuthInfos : SetAuthInfo(a, info[1], info[2])
    \/ \E a \in Values, state \in ExpectedStates : Authenticator_AuthURL(a, state)
    \/ \E a \in Values, state \in ExpectedStates, r \in Callbacks, reply \in Replies :
            Token(a, state, r, reply)
    \/ \E a \in Values, code \in Codes, reply \in Replies : Exchange(a, code, reply)
    \/ \E a \in Values, token \in Tokens : NewClient(a, token)

Spec == Init /\ [][Next]_vars

-----------------------------------------------------------------------------
(* SpecCallback: the redirect handler over every callback, in the          *)
(* application of the package's example: credentials in the environment,   *)
(* one Authenticator for the application's redirect URL                    *)

InitExample ==
    /\ Init
    /\ env.SPOTIFY_ID # ""
    /\ ctor[1] = [redirectURL |-> "https://app.example/cb", scopes |-> <<>>]

NextCallback ==
    \/ \E a \in Values, info \in AuthInfos : SetAuthInfo(a, info[1], info[2])
    \/ \E a \in Values, state \in ExpectedStates, r \in Requests, reply \in Replies :
            Token(a, state, r, reply)

SpecCallback == InitExample /\ [][NextCallback]_vars

-----------------------------------------------------------------------------
(* SpecCopies: several Authenticator values, copied and separately built *)

NextCopies ==
    \/ \E redirectURL \in RedirectURLs, scopes \in ScopeLists :
            NewAuthenticator(redirectURL, scopes)
    \/ \E a \in Values : Copy(a)
    \/ \E a \in Values, info \in AuthInfos : SetAuthInfo(a, info[1], info[2])
    \/ \E a \in Values : Authenticator_AuthURL(a, "xyz")
    \/ \E a \in Values, reply \in Replies : Exchange(a, "ABC", reply)

SpecCopies == InitExample /\ [][NextCopies]_vars

-----------------------------------------------------------------------------
(* SpecRace: SetAuthInfo running while Exchange or Token runs.  Neither    *)
(* side takes a lock, so the two assignments of SetAuthInfo and the two    *)
(* reads Config.Exchange makes of the credentials interleave freely.       *)

\* a call is under way on either side
Writing == setter.pc # "idle"
Reading == reader.pc # "idle"

\* a.SetAuthInfo(clientID, secretKey): the first assignment
SetAuthInfoWriteID(a, clientID, secretKey) ==
    /\ ~Writing
    /\ heap' = [heap EXCEPT ![auths[a].config] = WriteClientID(ConfigOf(a), clientID)]
    /\ setter' = [pc |-> "secret", a |-> a, clientID |-> clientID,
                  secretKey |-> secretKey]
    /\ reader' = IF Reading THEN [reader EXCEPT !.raced = TRUE] ELSE reader
    /\ UNCHANGED <<env, auths, origin, ctor, lastSet, last>>

\* a.SetAuthInfo(clientID, secretKey): the second assignment, and the return
SetAuthInfoWriteSecret ==
    /\ setter.pc = "secret"
    /\ heap' = [heap EXCEPT ![auths[setter.a].config] =
                    WriteClientSecret(ConfigOf(setter.a), setter.secretKey)]
    /\ lastSet' = [lastSet EXCEPT ![origin[setter.a]] =
                    [clientID |-> setter.clientID, secretKey |-> setter.secretKey,
                     via |-> setter.a]]
    /\ last' = [Call("SetAuthInfo", setter.a) EXCEPT
                    !.clientID = setter.clientID, !.secretKey = setter.secretKey]
    /\ setter' = Idle
    /\ reader' = IF Reading THEN [reader EXCEPT !.raced = TRUE] ELSE reader
    /\ UNCHANGED <<env, auths, origin, ctor>>

\* Config.Exchange reads the client identifier
ReadClientID(op, a, state, r, code) ==
    [ pc |-> "secret", op |-> op, a |-> a, state |-> state, r |-> r, code |-> code,
      id |-> ConfigOf(a).ClientID, raced |-> Writing ]

\* a.Exchange(code), up to the read of the identifier
ExchangeEnter(a, code) ==
    /\ ~Reading
    /\ reader' = ReadClientID("Exchange", a, Nil, NoRequest, code)
    /\ UNCHANGED <<env, heap, auths, origin, ctor, lastSet, last, setter>>

\* a.Token(state, r): the checks, and if they pass the read of the identifier
TokenEnter(a, state, r) ==
    /\ ~Reading
    /\ IF TokenChecks(state, r) # Nil
       THEN /\ last' = [Call("Token", a) EXCEPT
                            !.state = state, !.r = r, !.err = TokenChecks(state, r)]
            /\ UNCHANGED reader
       ELSE /\ reader' = ReadClientID("Token", a, state, r, Get(r, "code"))
            /\ UNCHANGED last
    /\ UNCHANGED <<env, heap, auths, origin, ctor, lastSet, setter>>

\* Config.Exchange reads the secret, sends the request and returns the reply
ExchangeSend(reply) ==
    /\ Reading
    /\ LET c == ConfigOf(reader.a) IN
       last' = [Call(reader.op, reader.a) EXCEPT
                    !.state = reader.state, !.r = reader.r, !.code = reader.code,
                    !.token = reply.token, !.err = reply.err,
                    !.sent = << ExchangeRequest(c, reader.id, c.ClientSecret,
                                                reader.code) >>,
                    !.reply = reply,
                    !.raced = reader.raced \/ Writing]
    /\ reader' = Idle
    /\ UNCHANGED <<env, heap, auths, origin, ctor, lastSet, setter>>

NextRace ==
    \/ \E a \in Values, info \in AuthInfos : SetAuthInfoWriteID(a, info[1], info[2])
    \/ SetAuthInfoWriteSecret
    \/ \E a \in Values, code \in Codes : ExchangeEnter(a, code)
    \/ \E a \in Values, state \in ExpectedStates, r \in Callbacks : TokenEnter(a, state, r)
    \/ \E reply \in Replies : ExchangeSend(reply)

SpecRace == InitExample /\ [][NextRace]_vars

-----------------------------------------------------------------------------
(* Properties *)

\* the parameters of the callback of the most recent call, as Token reads them
ErrorParam == Get(last.r, "error")
CodeParam == Get(last.r, "code")
StateParam == Get(last.r, "state")

\* the credentials in force for the values descending from NewAuthenticator
\* call f: those of the latest SetAuthInfo, else those of the environment
StoredInfo(f) ==
    IF lastSet[f] = NoCall
    THEN << env.SPOTIFY_ID, env.SPOTIFY_SECRET >>
    ELSE << lastSet[f].clientID, lastSet[f].secretKey >>

\* the credentials a token request carries
InfoOf(req) == << req.client_id, req.client_secret >>

\* C1: a Token call whose callback state differs from the expected state
\* returns an error and no token, and sends nothing to the token endpoint.
C1_StateMismatchSendsNothing ==
    (last.op = "Token" /\ StateParam # last.state)
        => (last.err # Nil /\ last.token = Nil /\ last.sent = <<>>)

\* a callback that only the state check can stop has been handled
C1_Witness ==
    /\ last.op = "Token"
    /\ ErrorParam = "" /\ CodeParam # ""
    /\ StateParam # last.state

\* C2: a Token call whose callback has a non-empty error parameter fails with
\* the auth-failed error carrying that string, whatever code and state are,
\* returns no token and sends nothing.
C2_ErrorParamDenies ==
    (last.op = "Token" /\ ErrorParam # "")
        => /\ last.err = ErrAuthFailed(ErrorParam)
           /\ last.token = Nil
           /\ last.sent = <<>>

\* a denied callback that otherwise carries a code and the expected state
C2_Witness ==
    /\ last.op = "Token"
    /\ ErrorParam = "access_denied"
    /\ CodeParam # "" /\ StateParam = last.state

\* C3 as stated: every callback with an empty or absent code fails with the
\* missing-code error.
C3_Original ==
    (last.op = "Token" /\ CodeParam = "") => last.err = ErrNoCode

\* C3 amended: a callback with an empty or absent code and no non-empty error
\* parameter fails with the missing-code error.
C3_NoCodeWithoutError ==
    (last.op = "Token" /\ ErrorParam = "" /\ CodeParam = "")
        => (last.err = ErrNoCode /\ last.token = Nil)

\* a callback with the error and code keys present and empty, state as expected
C3_Witness ==
    /\ last.op = "Token"
    /\ last.r["error"] = <<"">> /\ last.r["code"] = <<"">>
    /\ StateParam = last.state

\* C4 as stated: every callback whose state differs from the expected state
\* fails with the state-mismatch error.
C4_Original ==
    (last.op = "Token" /\ StateParam # last.state) => last.err = ErrStateMismatch

\* C4 amended: a callback with no non-empty error parameter, a non-empty code
\* and a state differing from the expected state (an absent state reads as the
\* empty string) fails with the state-mismatch error.
C4_MismatchAfterErrorAndCode ==
    (last.op = "Token" /\ ErrorParam = "" /\ CodeParam # "" /\ StateParam # last.state)
        => (last.err = ErrStateMismatch /\ last.token = Nil)

\* a callback with a code and no state parameter, a state being expected
C4_Witness ==
    /\ last.op = "Token"
    /\ ErrorParam = "" /\ CodeParam # ""
    /\ last.r["state"] = <<>> /\ last.state # ""

\* C5: Token checks error, then code, then state and stops at the first
\* failure: each of its three errors is returned exactly in its case, and a
\* request is sent exactly when all three checks pass.
C5_CheckOrder ==
    last.op = "Token" =>
        /\ last.err = ErrAuthFailed(ErrorParam) <=> ErrorParam # ""
        /\ last.err = ErrNoCode <=> (ErrorParam = "" /\ CodeParam = "")
        /\ last.err = ErrStateMismatch
              <=> (ErrorParam = "" /\ CodeParam # "" /\ StateParam # last.state)
        /\ last.sent # <<>>
              <=> (ErrorParam = "" /\ CodeParam # "" /\ StateParam = last.state)

\* a callback failing all three checks at once
C5_Witness ==
    /\ last.op = "Token"
    /\ ErrorParam # "" /\ CodeParam = "" /\ StateParam # last.state

\* C6: when all three checks pass, Token sends exactly one request, for the
\* callback's code with the stored identifier and secret, and returns the
\* reply's token and error as they came.
C6_ExchangeOutcomeUnchanged ==
    (last.op = "Token" /\ ErrorParam = "" /\ CodeParam # "" /\ StateParam = last.state)
        => /\ last.sent = << ExchangeRequest(ConfigOf(last.a),
                                             ConfigOf(last.a).ClientID,
                                             ConfigOf(last.a).ClientSecret,
                                             CodeParam) >>
           /\ last.reply \in Replies
           /\ last.token = last.reply.token
           /\ last.err = last.reply.err

\* a failed exchange after SetAuthInfo, its error handed back
C6_Witness ==
    /\ last.op = "Token"
    /\ Len(last.sent) = 1
    /\ last.sent[1].client_id = "id2" /\ last.sent[1].client_secret = "key2"
    /\ last.err \in ExchangeErrs

\* C7: AuthURL returns the authorization endpoint with the identifier of the
\* latest SetAuthInfo (the environment's, possibly empty, if there was none),
\* the redirect URL and scopes of construction and the given state, and sends
\* nothing.
C7_AuthURLCarriesConfig ==
    last.op = "AuthURL" =>
        /\ last.url.base = AuthURL
        /\ last.url.query["client_id"] = << StoredInfo(origin[last.a])[1] >>
        /\ Get(last.url.query, "redirect_uri") = ctor[origin[last.a]].redirectURL
        /\ Get(last.url.query, "scope") = Join(ctor[origin[last.a]].scopes)
        /\ Get(last.url.query, "state") = last.state
        /\ last.sent = <<>>

\* AuthURL after a SetAuthInfo, the environment being unset
C7_Witness ==
    /\ last.op = "AuthURL"
    /\ env.SPOTIFY_ID = ""
    /\ lastSet[origin[last.a]] # NoCall
    /\ Get(last.url.query, "client_id") = "id2"
    /\ Get(last.url.query, "scope") # ""

\* C8: every step leaves the redirect URL, the scopes and the endpoints as
\* construction set them; AuthURL, Token, Exchange and NewClient leave the
\* whole Config alone; SetAuthInfo changes the identifier and secret only.
C8_ConfigFrame ==
    [][ /\ Len(heap') = Len(heap)
        /\ \A i \in 1..Len(heap) :
              /\ heap'[i].RedirectURL = ctor'[i].redirectURL
              /\ heap'[i].Scopes = ctor'[i].scopes
              /\ heap'[i].Endpoint = [AuthURL |-> AuthURL, TokenURL |-> TokenURL]
        /\ last'.op \in {"AuthURL", "Token", "Exchange", "NewClient"} => heap' = heap
        /\ last'.op = "SetAuthInfo" =>
              \A i \in 1..Len(heap) :
                 heap'[i] = [heap[i] EXCEPT !.ClientID = heap'[i].ClientID,
                                            !.ClientSecret = heap'[i].ClientSecret]
      ]_vars

\* a failed Exchange on an Authenticator with scopes whose credentials were set
C8_Witness ==
    /\ last.op = "Exchange"
    /\ last.err # Nil
    /\ heap[1].ClientID = "id1"
    /\ heap[1].Scopes # <<>>

C10_CopiesShareConfig ==
    /\ \A i, j \in Values :
          origin[i] = origin[j] <=> auths[i].config = auths[j].config
    /\ last.op = "AuthURL" =>
          Get(last.url.query, "client_id") = StoredInfo(origin[last.a])[1]
    /\ last.op = "Exchange" =>
          InfoOf(last.sent[1]) = StoredInfo(origin[last.a])

\* an Exchange through one value after SetAuthInfo through another value of
\* the same descent, a separately built Authenticator keeping other credentials
C10_Witness ==
    /\ last.op = "Exchange"
    /\ lastSet[origin[last.a]] # NoCall
    /\ lastSet[origin[last.a]].via # last.a
    /\ \E j \in Values :
          /\ origin[j] # origin[last.a]
          /\ StoredInfo(origin[j]) # StoredInfo(origin[last.a])

=============================================================================
